---------------------------- MODULE Spec2Model ----------------------------
(***************************************************************************)
(* Waveform LUT construction (waveforms.py) and the AWG programming helper *)
(* (moku_awg.py) of moku_arbitrary_waveform_poc.                           *)
(*                                                                         *)
(* Numbers.  The code computes in IEEE-754 binary floating point (Python   *)
(* float / numpy float64).  The model keeps that arithmetic and scales the *)
(* format down: a finite number is an integer count of quanta, the quantum *)
(* being 2^-FracBits (the smallest subnormal), and it is representable     *)
(* when it is m * 2^k with m < 2^Prec and k <= MaxExp.  Every operation    *)
(* computes the exact rational result and rounds it to the nearest         *)
(* representable number, ties to even, overflowing to infinity; Inf, -Inf  *)
(* and NaN follow the IEEE rules.  With Prec = 53, FracBits = 1074 and     *)
(* MaxExp = 2045 these operators are binary64 itself.  The sign of zero is *)
(* not modelled (no operation of the code observes it).                    *)
(***************************************************************************)
EXTENDS Integers, Sequences, FiniteSets

VARIABLES pc, fn, args, t_s, wave, lut, f_rep, boundaries, exc, calls

vars == <<pc, fn, args, t_s, wave, lut, f_rep, boundaries, exc, calls>>

---------------------------------------------------------------------------
(* The floating-point format. *)

Prec == 4

FracBits == 8

MaxExp == 9

MaxN == 6

MaxLen == 3

One == 2 ^ FracBits

MaxFinite == (2 ^ Prec - 1) * 2 ^ MaxExp

Inf == MaxFinite + 1

NaN == MaxFinite + 2

MinNormal == 2 ^ (Prec - 1)

IsNaN(x) == x = NaN

IsFinite(x) == -Inf < x /\ x < Inf

IsFloat(n) == \E k \in 0..MaxExp : n % (2 ^ k) = 0 /\ n \div (2 ^ k) < 2 ^ Prec

PosFloats == {n \in 1..MaxFinite : IsFloat(n)}

Floats == PosFloats \cup {0} \cup {-n : n \in PosFloats}

AllFloats == Floats \cup {Inf, -Inf, NaN}

Sign(x) == IF x < 0 THEN -1 ELSE 1

Mag(x) == IF x < 0 THEN -x ELSE x

RoundHalfEven(n, d) ==
  LET q == n \div d
      r == n % d
  IN IF 2 * r < d THEN q
     ELSE IF 2 * r > d THEN q + 1
     ELSE IF q % 2 = 0 THEN q ELSE q + 1

RECURSIVE ScaleOf(_, _, _)
ScaleOf(a, d, k) == IF a < 2 ^ Prec * 2 ^ k * d THEN k ELSE ScaleOf(a, d, k + 1)

(* The float nearest to the rational n/d quanta (d > 0). *)
RoundAt(a, d, k) == RoundHalfEven(a, d * 2 ^ k) * 2 ^ k

Saturate(r) == IF r > MaxFinite THEN Inf ELSE r

Fl(n, d) == Sign(n) * Saturate(RoundAt(Mag(n), d, ScaleOf(Mag(n), d, 0)))

FNeg(x) == IF IsNaN(x) THEN NaN ELSE -x

FAbs(x) == IF IsNaN(x) THEN NaN ELSE Mag(x)

FAdd(x, y) ==
  IF IsNaN(x) \/ IsNaN(y) THEN NaN
  ELSE IF ~IsFinite(x) THEN (IF ~IsFinite(y) /\ y # x THEN NaN ELSE x)
  ELSE IF ~IsFinite(y) THEN y
  ELSE Fl(x + y, 1)

FSub(x, y) == FAdd(x, FNeg(y))

FMul(x, y) ==
  IF IsNaN(x) \/ IsNaN(y) THEN NaN
  ELSE IF ~IsFinite(x) \/ ~IsFinite(y)
       THEN (IF x = 0 \/ y = 0 THEN NaN ELSE Sign(x) * Sign(y) * Inf)
  ELSE Fl(x * y, One)

(* numpy's true division: dividing by zero gives Inf or NaN, never raises. *)
FDiv(x, y) ==
  IF IsNaN(x) \/ IsNaN(y) THEN NaN
  ELSE IF ~IsFinite(x) THEN (IF ~IsFinite(y) THEN NaN ELSE Sign(x) * Sign(y) * Inf)
  ELSE IF ~IsFinite(y) THEN 0
  ELSE IF y = 0 THEN (IF x = 0 THEN NaN ELSE Sign(x) * Inf)
  ELSE Fl(x * One * Sign(y), Mag(y))

(* The comparisons are false as soon as one side is NaN. *)
FLt(x, y) == ~IsNaN(x) /\ ~IsNaN(y) /\ x < y

FLe(x, y) == ~IsNaN(x) /\ ~IsNaN(y) /\ x <= y

(* float(i) of a Python int. *)
ToFloat(i) == Fl(i * One, 1)

---------------------------------------------------------------------------
(* Exceptions: the Python type and the raise site. *)

NoExc == [type |-> "", site |-> ""]

ValueError(site) == [type |-> "ValueError", site |-> site]

NoArray == << >>

---------------------------------------------------------------------------
(* make_time_axis *)

(* Faulty variant of Linspace: the endpoint flag is dropped (always half-open). *)
LinspaceHalfOpenOnly(stop, num, endpoint) ==
  [i \in 1..num |-> FMul(ToFloat(i - 1), FDiv(stop, ToFloat(num)))]

(* np.linspace(0.0, stop, num, endpoint=endpoint) *)
Linspace(stop, num, endpoint) ==
  LET div == IF endpoint THEN num - 1 ELSE num
      delta == FSub(stop, 0)
      step == FDiv(delta, ToFloat(div))
      y == [i \in 1..num |-> ToFloat(i - 1)]
      scaled == IF div > 0
                THEN IF step = 0
                     THEN [i \in 1..num |-> FMul(FDiv(y[i], ToFloat(div)), delta)]
                     ELSE [i \in 1..num |-> FMul(y[i], step)]
                ELSE [i \in 1..num |-> FMul(y[i], delta)]
  IN [i \in 1..num |->
        IF endpoint /\ num > 1 /\ i = num THEN stop ELSE FAdd(scaled[i], 0)]

(* The result of make_time_axis: the array, or the exception raised. *)
make_time_axis(T_rep_s, N, endpoint) ==
  IF N <= 0 THEN [exc |-> ValueError("N must be positive"), val |-> NoArray]
  ELSE IF ~IsFinite(T_rep_s) \/ FLe(T_rep_s, 0)
       THEN [exc |-> ValueError("T_rep_s must be finite and > 0"), val |-> NoArray]
  ELSE [exc |-> NoExc, val |-> Linspace(T_rep_s, N, endpoint)]

(* A call about to be made: the state before the body of fn runs. *)
Called(name, argset) ==
  /\ pc = "call"
  /\ fn = name
  /\ args \in argset
  /\ t_s = NoArray
  /\ wave = NoArray
  /\ lut = NoArray
  /\ f_rep = 0
  /\ boundaries = << >>
  /\ exc = NoExc
  /\ calls = << >>

Outcome(e) == IF e = NoExc THEN "returned" ELSE "raised"

AxisArgs == [T_rep_s : AllFloats, N : -1..MaxN, endpoint : BOOLEAN]

InitAxis == Called("make_time_axis", AxisArgs)

CallMakeTimeAxis ==
  /\ pc = "call"
  /\ fn = "make_time_axis"
  /\ \E r \in {make_time_axis(args.T_rep_s, args.N, args.endpoint)} :
        /\ exc' = r.exc
        /\ t_s' = r.val
        /\ pc' = Outcome(r.exc)
  /\ UNCHANGED <<fn, args, wave, lut, f_rep, boundaries, calls>>

SpecAxis == InitAxis /\ [][CallMakeTimeAxis]_vars

AxisReturned == fn = "make_time_axis" /\ pc = "returned"

StrictlyIncreasing(s) == \A i \in 1..(Len(s) - 1) : s[i] < s[i + 1]

(* The divisor of the step: N samples half-open, N - 1 intervals inclusive. *)
AxisDiv == IF args.endpoint THEN args.N - 1 ELSE args.N

(* The step period/div is a normal number (it did not underflow) and N is  *)
(* small against the precision: N <= 2^52 and period/N >= 2^-1022 in       *)
(* binary64.                                                               *)
AxisRegular ==
  /\ AxisDiv > 0
  /\ args.N <= 2 ^ (Prec - 1)
  /\ Fl(args.T_rep_s, AxisDiv) >= MinNormal

(* C1, as stated: for every finite period > 0 and N > 0 make_time_axis     *)
(* returns N strictly increasing values starting at 0; half-open, every    *)
(* value is < period; inclusive, every value is <= period and the last is  *)
(* the period.                                                             *)
C1_AsStated ==
  AxisReturned =>
    /\ Len(t_s) = args.N
    /\ t_s[1] = 0
    /\ StrictlyIncreasing(t_s)
    /\ ~args.endpoint => \A i \in 1..Len(t_s) : t_s[i] < args.T_rep_s
    /\ args.endpoint =>
         /\ \A i \in 1..Len(t_s) : t_s[i] <= args.T_rep_s
         /\ t_s[Len(t_s)] = args.T_rep_s

(* C1, amended: make_time_axis returns exactly when N > 0 and the period   *)
(* is finite and > 0, and then returns N values starting at 0.  When the   *)
(* step does not underflow (AxisRegular) the values are strictly           *)
(* increasing, value i being i * (period/div) with the quotient and the    *)
(* product each rounded to nearest; half-open, every value is < period;    *)
(* inclusive with N >= 2, every value is <= period and the last is the     *)
(* period.  Inclusive with N = 1 the single value is 0.                    *)
C1_TimeAxis ==
  /\ fn = "make_time_axis" /\ pc # "call" =>
       (pc = "returned" <=>
          args.N > 0 /\ IsFinite(args.T_rep_s) /\ args.T_rep_s > 0)
  /\ AxisReturned =>
       /\ Len(t_s) = args.N
       /\ t_s[1] = 0
       /\ args.endpoint /\ args.N = 1 => t_s = <<0>>
       /\ AxisRegular =>
            /\ StrictlyIncreasing(t_s)
            /\ \A i \in 1..Len(t_s) :
                 i < args.N \/ ~args.endpoint =>
                   t_s[i] = Fl((i - 1) * Fl(args.T_rep_s, AxisDiv), 1)
            /\ ~args.endpoint => \A i \in 1..Len(t_s) : t_s[i] < args.T_rep_s
            /\ args.endpoint =>
                 /\ \A i \in 1..Len(t_s) : t_s[i] <= args.T_rep_s
                 /\ t_s[Len(t_s)] = args.T_rep_s

(* An inclusive axis of three samples was returned: 0, period/2, period. *)
C1_Witness ==
  /\ AxisReturned
  /\ AxisRegular
  /\ args.endpoint
  /\ args.N = 3
  /\ t_s = <<0, One, 2 * One>>

---------------------------------------------------------------------------
(* waveform_to_lut *)

(* A str is a sequence of one-character strings. *)
Whitespace == {" ", "\t", "\n"}

UpperOf(c) ==
  CASE c = "a" -> "A" [] c = "e" -> "E" [] c = "f" -> "F" [] c = "k" -> "K"
    [] c = "l" -> "L" [] c = "n" -> "N" [] c = "o" -> "O" [] c = "p" -> "P"
    [] c = "s" -> "S" [] c = "m" -> "M" [] c = "x" -> "X" [] OTHER -> c

LowerLetters == {"a", "e", "f", "k", "l", "n", "o", "p", "s", "m", "x"}

(* str.lower(), one character. *)
LowerChar(c) ==
  IF \E l \in LowerLetters : UpperOf(l) = c
  THEN CHOOSE l \in LowerLetters : UpperOf(l) = c
  ELSE c

Lower(s) == [i \in 1..Len(s) |-> LowerChar(s[i])]

RECURSIVE LStrip(_)
LStrip(s) == IF s # << >> /\ Head(s) \in Whitespace THEN LStrip(Tail(s)) ELSE s

RECURSIVE RStrip(_)
RStrip(s) ==
  IF s # << >> /\ s[Len(s)] \in Whitespace
  THEN RStrip(SubSeq(s, 1, Len(s) - 1))
  ELSE s

(* Faulty variant of Strip: only leading whitespace is removed. *)
StripLeftOnly(s) == LStrip(s)

(* str.strip() *)
Strip(s) == RStrip(LStrip(s))

Peak == <<"p", "e", "a", "k">>

NoneWords == {<<"n", "o", "n", "e">>, <<"o", "f", "f">>, <<"f", "a", "l", "s", "e">>}

(* Faulty variant of NpMaxAbs: the largest sample, not the largest magnitude. *)
NpMaxSigned(w) ==
  IF \E i \in 1..Len(w) : IsNaN(w[i]) THEN NaN
  ELSE CHOOSE m \in {w[i] : i \in 1..Len(w)} : \A j \in 1..Len(w) : w[j] <= m

(* np.max(np.abs(w)) of a non-empty array: NaN as soon as a sample is NaN. *)
NpMaxAbs(w) ==
  IF \E i \in 1..Len(w) : IsNaN(w[i]) THEN NaN
  ELSE CHOOSE m \in {FAbs(w[i]) : i \in 1..Len(w)} :
         \A j \in 1..Len(w) : FAbs(w[j]) <= m

(* np.clip(x, -1.0, 1.0), one sample: NaN stays NaN. *)
Clip1(x) == IF IsNaN(x) THEN NaN ELSE IF x < -One THEN -One ELSE IF x > One THEN One ELSE x

NpClip(a) == [i \in 1..Len(a) |-> Clip1(a[i])]

(* Faulty variant of PeakUsable: a zero peak is let through. *)
PeakUsableOrZero(peak) == IsFinite(peak) /\ ~FLt(peak, 0)

(* not (not np.isfinite(peak) or peak <= 0.0) *)
PeakUsable(peak) == IsFinite(peak) /\ ~FLe(peak, 0)

(* The result of waveform_to_lut: the LUT, or the exception raised. *)
waveform_to_lut(w, normalize, clip) ==
  LET strategy == Strip(Lower(normalize))
      peak == IF Len(w) > 0 THEN NpMaxAbs(w) ELSE 0
      scaled == IF strategy = Peak
                THEN [i \in 1..Len(w) |-> FDiv(w[i], peak)]
                ELSE w
  IN IF strategy = Peak /\ ~PeakUsable(peak)
     THEN [exc |-> ValueError("Waveform peak is zero or non-finite"), val |-> NoArray]
     ELSE IF strategy # Peak /\ strategy \notin NoneWords
     THEN [exc |-> ValueError("Unsupported normalize strategy"), val |-> NoArray]
     ELSE [exc |-> NoExc, val |-> IF clip THEN NpClip(scaled) ELSE scaled]

CallWaveformToLut ==
  /\ pc = "call"
  /\ fn = "waveform_to_lut"
  /\ \E r \in {waveform_to_lut(args.wave, args.normalize, args.clip)} :
        /\ exc' = r.exc
        /\ lut' = r.val
        /\ pc' = Outcome(r.exc)
  /\ UNCHANGED <<fn, args, t_s, wave, f_rep, boundaries, calls>>

RECURSIVE SeqsUpTo(_, _)
SeqsUpTo(S, n) ==
  IF n = 0 THEN {<< >>}
  ELSE LET shorter == SeqsUpTo(S, n - 1)
       IN shorter \cup {Append(w, x) : w \in {v \in shorter : Len(v) = n - 1}, x \in S}

RECURSIVE CaseVariants(_)
CaseVariants(word) ==
  IF word = << >> THEN {<< >>}
  ELSE {<<c>> \o rest : c \in {Head(word), UpperOf(Head(word))},
                        rest \in CaseVariants(Tail(word))}

Padded(S) ==
  {l \o w \o r : l \in {<< >>, <<" ">>}, w \in S, r \in {<< >>, <<"\t">>, <<" ", "\n">>}}

Spellings ==
  Padded(UNION {CaseVariants(w) : w \in NoneWords \cup {Peak}})
    \cup {<< >>, <<" ">>, <<"m", "a", "x">>, <<"o", "n">>, <<"n", "o", "n">>,
          <<"n", "o", " ", "n", "e">>, <<"p", "e", "a", "k", "s">>}

SampleVals ==
  {0, 1, -3, -(One \div 2), One, 3 * (One \div 2), -2 * One, MaxFinite, Inf, -Inf, NaN}

(* Many samples under a few strategies, and every spelling over a few samples. *)
LutArgs ==
  [wave : SeqsUpTo(SampleVals, MaxLen),
   normalize : {Peak, <<" ", "P", "e", "a", "K", "\n">>, <<"n", "o", "n", "e">>},
   clip : BOOLEAN]
    \cup [wave : SeqsUpTo({0, One \div 2, 2 * One, NaN}, MaxLen - 1),
          normalize : Spellings,
          clip : BOOLEAN]

InitLut == Called("waveform_to_lut", LutArgs)

SpecLut == InitLut /\ [][CallWaveformToLut]_vars

LutCalled == fn = "waveform_to_lut" /\ pc # "call"

SameLetter(c, l) == c = l \/ c = UpperOf(l)

(* s is word in some letter case, between runs of whitespace. *)
Spells(s, word) ==
  \E a \in 0..Len(s) :
    LET b == Len(s) - Len(word) - a
    IN /\ b >= 0
       /\ \A i \in 1..a : s[i] \in Whitespace
       /\ \A i \in (Len(s) - b + 1)..Len(s) : s[i] \in Whitespace
       /\ \A k \in 1..Len(word) : SameLetter(s[a + k], word[k])

SpellsNone(s) == \E w \in NoneWords : Spells(s, w)

AllFinite(w) == \A i \in 1..Len(w) : IsFinite(w[i])

AllZero(w) == \A i \in 1..Len(w) : w[i] = 0

(* max |w[i]| of a non-empty finite sequence, in the integers. *)
MaxMag(w) == CHOOSE m \in {Mag(w[i]) : i \in 1..Len(w)} : \A j \in 1..Len(w) : Mag(w[j]) <= m

(* q is a float nearest to the exact quotient x / m. *)
NearestQuotient(q, x, m) ==
  /\ q \in Floats
  /\ \A g \in Floats : Mag(q * m - x * One) <= Mag(g * m - x * One)

(* C4: for a non-empty finite sample sequence that is not all zero,        *)
(* waveform_to_lut under "peak" with clip=true returns a sequence of the   *)
(* same length whose values are the samples divided by max|samples|        *)
(* (rounded to nearest), all in [-1, 1], the largest magnitude being 1.    *)
C4_PeakNormalized ==
  LutCalled /\ Spells(args.normalize, Peak) /\ args.clip
    /\ args.wave # << >> /\ AllFinite(args.wave) /\ ~AllZero(args.wave) =>
      /\ pc = "returned"
      /\ Len(lut) = Len(args.wave)
      /\ \A i \in 1..Len(lut) :
           /\ NearestQuotient(lut[i], args.wave[i], MaxMag(args.wave))
           /\ -One <= lut[i] /\ lut[i] <= One
      /\ \E i \in 1..Len(lut) : Mag(lut[i]) = One

(* Three samples, the negative one the peak, were normalized. *)
C4_Witness ==
  /\ LutCalled /\ pc = "returned"
  /\ args.normalize = Peak /\ args.clip
  /\ args.wave = <<One, -2 * One, -3>>
  /\ lut = <<One \div 2, -One, -2>>

BadPeak(w) == w = << >> \/ AllZero(w) \/ ~AllFinite(w)

PeakError == ValueError("Waveform peak is zero or non-finite")

(* C5: under "peak", whenever max|samples| is zero or not finite (the      *)
(* empty and the all-zero sequences included) waveform_to_lut raises the   *)
(* peak error and returns no LUT, whatever the clip flag.                  *)
C5_PeakRejects ==
  LutCalled /\ Spells(args.normalize, Peak) /\ BadPeak(args.wave) =>
    pc = "raised" /\ exc = PeakError /\ lut = NoArray

(* An all-zero sequence was rejected with clip=false. *)
C5_Witness ==
  /\ LutCalled /\ pc = "raised" /\ exc = PeakError
  /\ args.normalize = Peak /\ ~args.clip
  /\ args.wave = <<0, 0, 0>>

Clamped(x) == IF IsNaN(x) THEN x ELSE IF x > One THEN One ELSE IF x < -One THEN -One ELSE x

(* C9: under "none"/"off"/"false" (any letter case, surrounding            *)
(* whitespace) the output is the input when clip=false and the input       *)
(* clamped to [-1, 1] when clip=true, and nothing is raised, not even for  *)
(* an empty or all-zero input; a strategy that spells neither these nor    *)
(* "peak" raises the unsupported-strategy ValueError.                      *)
C9_NoneStrategy ==
  LutCalled =>
    /\ SpellsNone(args.normalize) =>
         /\ pc = "returned"
         /\ ~args.clip => lut = args.wave
         /\ args.clip =>
              /\ Len(lut) = Len(args.wave)
              /\ \A i \in 1..Len(lut) : lut[i] = Clamped(args.wave[i])
    /\ ~SpellsNone(args.normalize) /\ ~Spells(args.normalize, Peak) =>
         /\ pc = "raised"
         /\ exc = ValueError("Unsupported normalize strategy")
         /\ lut = NoArray

(* " OFF\t" passed an out-of-range sample through, unclipped. *)
C9_Witness ==
  /\ LutCalled /\ pc = "returned"
  /\ args.normalize = <<" ", "O", "F", "F", "\t">>
  /\ ~args.clip
  /\ args.wave = <<2 * One, 0>>
  /\ lut = <<2 * One, 0>>

---------------------------------------------------------------------------
(* build_square_lut *)

Raised(e, axis, w) ==
  [exc |-> e, t_s |-> axis, wave |-> w, lut |-> NoArray, f_rep |-> 0, boundaries |-> << >>]

(* What a builder hands back once its inputs are accepted: the exception   *)
(* of make_time_axis or of waveform_to_lut, or the 4-tuple.                *)
Built(axis, w, l, f, bnd) ==
  IF axis.exc # NoExc THEN Raised(axis.exc, NoArray, NoArray)
  ELSE IF l.exc # NoExc THEN Raised(l.exc, axis.val, w)
  ELSE [exc |-> NoExc, t_s |-> axis.val, wave |-> w, lut |-> l.val,
        f_rep |-> f, boundaries |-> bnd]

(* Faulty variant of SquareWave: the transition sample is taken high (<=). *)
SquareWaveInclusive(axis, t_high_end, high, low) ==
  [i \in 1..Len(axis) |-> IF FLe(axis[i], t_high_end) THEN high ELSE low]

(* np.where(t_s < t_high_end, high, low) *)
SquareWave(axis, t_high_end, high, low) ==
  [i \in 1..Len(axis) |-> IF FLt(axis[i], t_high_end) THEN high ELSE low]

(* Faulty variant of BuilderClip: the builder passes clip=False. *)
BuilderNoClip == FALSE

(* The clip flag the builders pass to waveform_to_lut. *)
BuilderClip == TRUE

(* The result of build_square_lut: the 4-tuple, or the exception raised    *)
(* (with the locals t_s and wave as far as they were computed).            *)
build_square_lut(params, N, normalize) ==
  LET f == params.f_rep_hz
      duty == params.duty
      T_rep == FDiv(One, f)
      axis == make_time_axis(T_rep, N, FALSE)
      t_high_end == FMul(duty, T_rep)
      w == SquareWave(axis.val, t_high_end, params.high, params.low)
      l == waveform_to_lut(w, normalize, BuilderClip)
  IN IF ~IsFinite(f) \/ FLe(f, 0)
     THEN Raised(ValueError("f_rep_hz must be finite and > 0"), NoArray, NoArray)
     ELSE IF ~IsFinite(duty) \/ FLt(duty, 0) \/ FLt(One, duty)
     THEN Raised(ValueError("duty must be in [0, 1]"), NoArray, NoArray)
     ELSE Built(axis, w, l, f, <<t_high_end>>)

CallBuildSquareLut ==
  /\ pc = "call"
  /\ fn = "build_square_lut"
  /\ \E r \in {build_square_lut(args.params, args.N, args.normalize)} :
        /\ exc' = r.exc
        /\ t_s' = r.t_s
        /\ wave' = r.wave
        /\ lut' = r.lut
        /\ f_rep' = r.f_rep
        /\ boundaries' = r.boundaries
        /\ pc' = Outcome(r.exc)
  /\ UNCHANGED <<fn, args, calls>>

(* A period 1/f whose step T/N is a normal number for every N <= MaxN. *)
RegularFreq(f) ==
  /\ IsFinite(FDiv(One, f))
  /\ Fl(FDiv(One, f), MaxN) >= MinNormal

(* Rejected frequencies, frequencies so small that 1/f overflows, and the  *)
(* frequencies whose step stays normal.                                    *)
SquareFreqs ==
  {0, -One, Inf, NaN}
    \cup {f \in PosFloats : ~IsFinite(FDiv(One, f)) \/ RegularFreq(f)}

SquareDuties ==
  {0, 1, 3, One \div 4, 7 * (One \div 16), One \div 2, 3 * (One \div 4), One, -1, 5 * (One \div 4), NaN}

(* Every frequency and duty at the default levels, and every level and    *)
(* strategy at a few frequencies and duties.                               *)
SquareArgs ==
  [params : [f_rep_hz : SquareFreqs, duty : SquareDuties, high : {One}, low : {-One}],
   N : 0..MaxN,
   normalize : {Peak}]
    \cup [params : [f_rep_hz : {One, 3 * (One \div 4), 1, NaN},
                    duty : {0, One \div 2, One, 5 * (One \div 4)},
                    high : {One, 0, 2 * One, NaN},
                    low : {-One, 0, -3 * One}],
          N : 0..MaxN,
          normalize : {Peak, <<"o", "f", "f">>, <<"m", "a", "x">>}]

---------------------------------------------------------------------------
(* gaussian_pulse and build_gaussian_ramsey_lut *)

(* np.exp is computed in fixed point, ExpScale units to 1. *)
ExpScale == 2 ^ 14

(* ExpScale * e^(-n/One) for 0 <= n <= One: the alternating Taylor series. *)
RECURSIVE ExpSeries(_, _, _, _)
ExpSeries(n, k, term, acc) ==
  IF term = 0 THEN acc
  ELSE ExpSeries(n, k + 1, (term * n) \div (One * (k + 1)),
                 IF k % 2 = 0 THEN acc + term ELSE acc - term)

RECURSIVE ExpTimes(_, _)
ExpTimes(v, i) ==
  IF i = 0 THEN v
  ELSE ExpTimes((v * ExpSeries(One, 0, ExpScale, 0)) \div ExpScale, i - 1)

(* np.exp(u) for u <= 0 (the argument -0.5 * z**2 is never positive):      *)
(* exp(nan) = nan, exp(-inf) = 0, exp(0) = 1, and a result below half a    *)
(* quantum underflows to 0.                                                *)
FExp(u) ==
  IF IsNaN(u) THEN NaN
  ELSE IF u = -Inf \/ (-u) \div One >= FracBits + 2 THEN 0
  ELSE Fl(ExpTimes(ExpSeries((-u) % One, 0, ExpScale, 0), (-u) \div One) * One, ExpScale)

(* amp * np.exp(-0.5 * ((t - t_center) / sigma) ** 2), one sample *)
Gauss1(t, t_center_s, sigma_s, amp) ==
  LET z == FDiv(FSub(t, t_center_s), sigma_s)
  IN FMul(amp, FExp(FMul(-(One \div 2), FMul(z, z))))

gaussian_pulse(axis, t_center_s, sigma_s, amp) ==
  [i \in 1..Len(axis) |-> Gauss1(axis[i], t_center_s, sigma_s, amp)]

(* T_rep = 2.0 * tau + 2.0 * t_pi2 *)
RamseyPeriod(tau, t_pi2) == FAdd(FMul(2 * One, tau), FMul(2 * One, t_pi2))

(* The result of build_gaussian_ramsey_lut: the 4-tuple, or the exception  *)
(* raised.  1.0 / T_rep is a division of Python floats: it raises          *)
(* ZeroDivisionError when T_rep is 0.                                      *)
build_gaussian_ramsey_lut(params, N, sigma_frac, amp) ==
  LET t_pi2 == params.t_pi2_s
      tau == params.tau_s
      T_rep == RamseyPeriod(tau, t_pi2)
      axis == make_time_axis(T_rep, N, FALSE)
      t1 == FAdd(0, tau)
      t2 == FAdd(t1, t_pi2)
      t3 == FAdd(t2, tau)
      t4 == FAdd(t3, t_pi2)
      sigma == FMul(sigma_frac, t_pi2)
      g1 == gaussian_pulse(axis.val, FDiv(FAdd(t1, t2), 2 * One), sigma, amp)
      g2 == gaussian_pulse(axis.val, FDiv(FAdd(t3, t4), 2 * One), sigma, amp)
      w == [i \in 1..Len(axis.val) |-> FAdd(FAdd(0, g1[i]), g2[i])]
      l == waveform_to_lut(w, Peak, BuilderClip)
  IN IF T_rep = 0
     THEN Raised([type |-> "ZeroDivisionError", site |-> "1.0 / T_rep"], NoArray, NoArray)
     ELSE Built(axis, w, l, FDiv(One, T_rep), <<t1, t2, t3, t4>>)

CallBuildGaussianRamseyLut ==
  /\ pc = "call"
  /\ fn = "build_gaussian_ramsey_lut"
  /\ \E r \in {build_gaussian_ramsey_lut(args.params, args.N, args.sigma_frac, args.amp)} :
        /\ exc' = r.exc
        /\ t_s' = r.t_s
        /\ wave' = r.wave
        /\ lut' = r.lut
        /\ f_rep' = r.f_rep
        /\ boundaries' = r.boundaries
        /\ pc' = Outcome(r.exc)
  /\ UNCHANGED <<fn, args, calls>>

RamseyTimes ==
  {0, -One, -1, Inf, NaN, 1, One \div 4, One \div 2, One, 5 * (One \div 4),
   11 * (One \div 16), 13 * (One \div 8), 3 * One}

RamseyArgs ==
  [params : [t_pi2_s : RamseyTimes, tau_s : RamseyTimes],
   N : 0..MaxN,
   sigma_frac : {One \div 4, 0},
   amp : {One, 0, Inf}]

InitBuilders ==
  \/ Called("build_square_lut", SquareArgs)
  \/ Called("build_gaussian_ramsey_lut", RamseyArgs)

NextBuilders == CallBuildSquareLut \/ CallBuildGaussianRamseyLut

SpecBuilders == InitBuilders /\ [][NextBuilders]_vars

---------------------------------------------------------------------------
(* The square-wave builder *)

SquareDone == fn = "build_square_lut" /\ pc # "call"

SquareReturned == fn = "build_square_lut" /\ pc = "returned"

(* f_rep_hz finite and > 0, N > 0: the inputs the builder's contract names. *)
SquareValid ==
  /\ IsFinite(args.params.f_rep_hz)
  /\ args.params.f_rep_hz > 0
  /\ args.N > 0

(* The period 1/f_rep_hz and the transition time duty * T, as floats. *)
SquarePeriod == Fl(One * One, args.params.f_rep_hz)

SquareEdge == Fl(args.params.duty * SquarePeriod, One)

HighIdx == {i \in 1..Len(wave) : wave[i] = args.params.high}

FloorDutyN == (args.params.duty * args.N) \div One

CeilDutyN == (args.params.duty * args.N + One - 1) \div One

PowerOfTwo(n) == \E k \in 0..MaxN : n = 2 ^ k

ConstantZero ==
  /\ SquareDone
  /\ SquareValid
  /\ Spells(args.normalize, Peak)
  /\ \/ args.params.duty = One /\ args.params.high = 0
     \/ args.params.duty = 0 /\ args.params.low = 0

ConstantLevel ==
  /\ args.params.duty = 0 => \A i \in 1..Len(wave) : wave[i] = args.params.low
  /\ args.params.duty = One => \A i \in 1..Len(wave) : wave[i] = args.params.high

---------------------------------------------------------------------------
(* The Ramsey builder *)

RamseyDone == fn = "build_gaussian_ramsey_lut" /\ pc # "call"

RamseyReturned == fn = "build_gaussian_ramsey_lut" /\ pc = "returned"

FinitePositive(x) == IsFinite(x) /\ x > 0

(* C2 as stated: whenever tau_s or t_pi2_s is not finite and strictly      *)
(* positive, build_gaussian_ramsey_lut raises a ValueError.                *)
C2_AsStated ==
  RamseyDone /\ ~(FinitePositive(args.params.tau_s) /\ FinitePositive(args.params.t_pi2_s))
    => pc = "raised" /\ exc.type = "ValueError"

(* C3 as stated, over finite positive tau_s and t_pi2_s only: the          *)
(* boundaries returned are t1 = tau, t2 = t1 + t_pi2, t3 = t2 + tau,       *)
(* t4 = t3 + t_pi2, strictly increasing, within [0, T] and with t4 = T,    *)
(* for the period T = 2*tau + 2*t_pi2 of the time axis, and f_rep = 1/T.   *)
C3_AsStated ==
  /\ RamseyReturned
  /\ FinitePositive(args.params.tau_s)
  /\ FinitePositive(args.params.t_pi2_s)
  => LET T == Fl(2 * args.params.tau_s + 2 * args.params.t_pi2_s, 1)
     IN /\ Len(boundaries) = 4
        /\ boundaries[1] = args.params.tau_s
        /\ boundaries[2] = Fl(boundaries[1] + args.params.t_pi2_s, 1)
        /\ boundaries[3] = Fl(boundaries[2] + args.params.tau_s, 1)
        /\ boundaries[4] = Fl(boundaries[3] + args.params.t_pi2_s, 1)
        /\ StrictlyIncreasing(boundaries)
        /\ 0 <= boundaries[1]
        /\ boundaries[4] <= T
        /\ boundaries[4] = T
        /\ f_rep = Fl(One * One, T)

---------------------------------------------------------------------------
(* Both builders *)

BuilderReturned ==
  /\ fn \in {"build_square_lut", "build_gaussian_ramsey_lut"}
  /\ pc = "returned"

(* The levels of a square wave are finite reals; the Ramsey builder has    *)
(* no levels.                                                              *)
FiniteLevels ==
  fn = "build_square_lut" => IsFinite(args.params.high) /\ IsFinite(args.params.low)

---------------------------------------------------------------------------
(* program_awg_indefinitely *)

(* An error raised by the instrument library, named after the call. *)
DeviceError(site) == [type |-> "MokuException", site |-> site]

(* One entry of the log of calls made: the callee, what it was given and   *)
(* whether it returned or raised.                                          *)
CallTo(op, given, result) == [op |-> op, given |-> given, result |-> result]

Results == {"returned", "raised"}

(* Faulty variant of AfterGenerate: no try/finally, the exception escapes at once. *)
AfterGenerateNoFinally(result) == IF result = "raised" THEN "raised" ELSE "print"

(* Where control goes after awg.generate_waveform(...) inside the try.     *)
AfterGenerate(result) == IF result = "raised" THEN "finally" ELSE "print"

(* awg = ArbitraryWaveformGenerator(moku_ip, force_connect=True), before   *)
(* the try: an exception here leaves the function at once.                 *)
Connect ==
  /\ pc = "call"
  /\ fn = "program_awg_indefinitely"
  /\ \E result \in Results :
       /\ calls' = Append(calls, CallTo("ArbitraryWaveformGenerator", <<args.moku_ip>>, result))
       /\ pc' = IF result = "raised" THEN "raised" ELSE "try"
       /\ exc' = IF result = "raised" THEN DeviceError("ArbitraryWaveformGenerator") ELSE NoExc
  /\ UNCHANGED <<fn, args, t_s, wave, lut, f_rep, boundaries>>

GenerateWaveform ==
  /\ pc = "try"
  /\ \E result \in Results :
       /\ calls' = Append(calls,
                     CallTo("generate_waveform",
                            <<args.channel, args.sample_rate, args.lut, args.f_rep_hz, args.vpp>>,
                            result))
       /\ pc' = AfterGenerate(result)
       /\ exc' = IF result = "raised" THEN DeviceError("generate_waveform") ELSE NoExc
  /\ UNCHANGED <<fn, args, t_s, wave, lut, f_rep, boundaries>>

(* The two print calls that end the try block. *)
PrintRunning ==
  /\ pc = "print"
  /\ calls' = calls \o <<CallTo("print", <<"AWG running indefinitely", args.channel>>, "returned"),
                         CallTo("print", <<"Relinquishing ownership now">>, "returned")>>
  /\ pc' = "finally"
  /\ UNCHANGED <<fn, args, t_s, wave, lut, f_rep, boundaries, exc>>

(* finally: awg.relinquish_ownership(); its own exception replaces the     *)
(* pending one.                                                            *)
RelinquishOwnership ==
  /\ pc = "finally"
  /\ \E result \in Results :
       /\ calls' = Append(calls, CallTo("relinquish_ownership", << >>, result))
       /\ pc' = IF result = "raised" THEN "raised" ELSE "finally_print"
       /\ exc' = IF result = "raised" THEN DeviceError("relinquish_ownership") ELSE exc
  /\ UNCHANGED <<fn, args, t_s, wave, lut, f_rep, boundaries>>

(* print("Ownership relinquished."), then the pending exception, if any,   *)
(* is raised again.                                                        *)
PrintRelinquished ==
  /\ pc = "finally_print"
  /\ calls' = Append(calls, CallTo("print", <<"Ownership relinquished.">>, "returned"))
  /\ pc' = Outcome(exc)
  /\ UNCHANGED <<fn, args, t_s, wave, lut, f_rep, boundaries, exc>>

AwgArgs ==
  [moku_ip : {"192.168.73.1"},
   channel : {1, 2},
   lut : {<<0>>, <<One, -One>>, <<0, One, 0>>},
   f_rep_hz : {One, 3 * One},
   vpp : {One, 2 * One},
   sample_rate : {"Auto"}]

InitAwg == Called("program_awg_indefinitely", AwgArgs)

NextAwg ==
  \/ Connect
  \/ GenerateWaveform
  \/ PrintRunning
  \/ RelinquishOwnership
  \/ PrintRelinquished

SpecAwg == InitAwg /\ [][NextAwg]_vars

AwgRunning == fn = "program_awg_indefinitely"

AwgFinished == AwgRunning /\ pc \in {"returned", "raised"}

Made(op) == {i \in 1..Len(calls) : calls[i].op = op}

Connected ==
  \E i \in Made("ArbitraryWaveformGenerator") : calls[i].result = "returned"

GenerateRaised ==
  \E i \in Made("generate_waveform") : calls[i].result = "raised"

RelinquishRaised ==
  \E i \in Made("relinquish_ownership") : calls[i].result = "raised"

(* C10: program_awg_indefinitely never calls relinquish_ownership more     *)
(* than once nor before generate_waveform was called.  When it is left     *)
(* with the connection established, relinquish_ownership was called        *)
(* exactly once, after the single generate_waveform call, whether that     *)
(* call returned or raised; an exception of generate_waveform is still     *)
(* raised to the caller after the relinquish (unless relinquish_ownership  *)
(* itself raised, whose exception is then the one raised), and without     *)
(* any exception the function returns.  When the connection fails, the     *)
(* function raises that error and neither generate_waveform nor            *)
(* relinquish_ownership is called.                                         *)
C10_Relinquish ==
  AwgRunning =>
    /\ Cardinality(Made("relinquish_ownership")) <= 1
    /\ Cardinality(Made("generate_waveform")) <= 1
    /\ \A r \in Made("relinquish_ownership") :
         \E g \in Made("generate_waveform") :
           /\ g < r
           /\ calls[g].given =
                <<args.channel, args.sample_rate, args.lut, args.f_rep_hz, args.vpp>>
    /\ AwgFinished /\ Connected =>
         /\ Cardinality(Made("relinquish_ownership")) = 1
         /\ Cardinality(Made("generate_waveform")) = 1
         /\ IF RelinquishRaised
            THEN pc = "raised" /\ exc = DeviceError("relinquish_ownership")
            ELSE IF GenerateRaised
            THEN pc = "raised" /\ exc = DeviceError("generate_waveform")
            ELSE pc = "returned" /\ exc = NoExc
    /\ AwgFinished /\ ~Connected =>
         /\ pc = "raised"
         /\ exc = DeviceError("ArbitraryWaveformGenerator")
         /\ Made("generate_waveform") = {}
         /\ Made("relinquish_ownership") = {}

(* generate_waveform raised, ownership was relinquished, then the error    *)
(* reached the caller.                                                     *)
C10_Witness ==
  /\ AwgFinished
  /\ pc = "raised"
  /\ exc = DeviceError("generate_waveform")
  /\ Len(calls) = 4
  /\ calls[2].op = "generate_waveform"
  /\ calls[2].result = "raised"
  /\ calls[3].op = "relinquish_ownership"
  /\ calls[3].result = "returned"

=============================================================================
